---- MODULE Spec2Model ----
(***************************************************************************)
(* The regular-expression engine of 11_Regex: lex_regex -> parse_regex ->  *)
(* regex_emit -> regex_exec, driven by Regex::_compile and Regex::match.   *)
(* Characters are their ASCII codes, the byte code is a sequence of bytes  *)
(* (0..255) and every address is a 0-based byte offset as in the source.   *)
(***************************************************************************)
EXTENDS Integers, Sequences, FiniteSets, TLC

VARIABLES
    regex,            \* the pattern handed to Regex::Regex (sequence of char codes)
    phase,            \* "lex", "parse", "emit", "ready", "exec", "crashed"
    i,                \* lex_regex: scan index
    need_concat,      \* lex_regex: implicit-concatenation flag
    tokens,           \* lex_regex: token vector
    tok,              \* parse_regex / regex_emit: number of tokens already consumed
    output,           \* parse_regex: postfix output vector
    operators,        \* parse_regex: operator stack (top = last element)
    current_group_id, \* parse_regex: next group id
    fragments,        \* regex_emit: fragment stack (top = last element)
    bytecode,         \* Regex::_bytecode
    compiled,         \* what _compile returned: "pending", "ok", "lex_failed", "parse_failed"
    ub,               \* first undefined behaviour the run met, or "none"
    vm,               \* RegexVM of the match call in progress (or of the last one)
    res,              \* what the last match call returned: "none", "true" or "false"
    seen,             \* VM configurations <<pc, sp, status_flag>> executed by this match call
    phase2,           \* a second, concurrent match call on the same object: "ready" or "exec"
    vm2,              \* the RegexVM of the second call
    res2,             \* what the second call returned: "none", "true" or "false"
    overlapped        \* TRUE once one call has stepped while the other was inside regex_exec

vars == <<regex, phase, i, need_concat, tokens, tok, output, operators,
          current_group_id, fragments, bytecode, compiled, ub, vm, res, seen,
          phase2, vm2, res2, overlapped>>

lexVars == <<i, need_concat, tokens>>
parseVars == <<output, operators, current_group_id>>
vmVars == <<vm, res, seen>>
call2Vars == <<phase2, vm2, res2>>
callVars == <<call2Vars, overlapped>>

(***************************************************************************)
(* Bounds of the model.                                                    *)
(***************************************************************************)
MaxRegexLen == 3
MaxStrLen == 2

(***************************************************************************)
(* Characters.                                                             *)
(***************************************************************************)
Ascii ==
    ("a" :> 97) @@ ("b" :> 98) @@ ("c" :> 99) @@ ("d" :> 100) @@ ("e" :> 101) @@
    ("r" :> 114) @@ ("z" :> 122) @@ ("A" :> 65) @@ ("Z" :> 90) @@
    ("0" :> 48) @@ ("1" :> 49) @@ ("9" :> 57) @@ ("_" :> 95) @@
    ("|" :> 124) @@ ("*" :> 42) @@ ("+" :> 43) @@ ("?" :> 63) @@ ("." :> 46) @@
    ("(" :> 40) @@ (")" :> 41) @@ ("[" :> 91) @@ ("]" :> 93) @@
    ("-" :> 45) @@ ("!" :> 33) @@ ("NUL" :> 0)

Ord(c) == Ascii[c]

\* A pattern or subject written as a tuple of one-character strings.
Str(s) == [k \in 1..Len(s) |-> Ord(s[k])]

isdigit(c) == c >= 48 /\ c <= 57
islower(c) == c >= 97 /\ c <= 122
isupper(c) == c >= 65 /\ c <= 90
isalnum(c) == isdigit(c) \/ islower(c) \/ isupper(c)

(***************************************************************************)
(* Enumerations of the source.                                             *)
(***************************************************************************)
RegexOperatorType_Alternate == 0
RegexOperatorType_Concatenate == 1
RegexOperatorType_ZeroOrMore == 2
RegexOperatorType_OneOrMore == 3
RegexOperatorType_ZeroOrOne == 4

RegexCharacterType_Single == 0
RegexCharacterType_Range == 1
RegexCharacterType_Any == 2

RegexTokenType_Character == 0
RegexTokenType_CharacterRange == 1
RegexTokenType_Operator == 2
RegexTokenType_GroupBegin == 3
RegexTokenType_GroupEnd == 4
RegexTokenType_Invalid == 5

\* A null data pointer (the synthesized Concatenate token).
nullptr == -1

\* RegexToken(data, data_len, type, encoding = 0); data is the 0-based offset of
\* the token's first character in the pattern.
RegexToken(data, data_len, type, encoding) ==
    [data |-> data, data_len |-> data_len, type |-> type, encoding |-> encoding]

ConcatToken == RegexToken(nullptr, 0, RegexTokenType_Operator, RegexOperatorType_Concatenate)

\* regex[k] of the std::string, k a 0-based offset smaller than its size.
CharAt(s, k) == s[k + 1]

(***************************************************************************)
(* lex_regex: one iteration of its while loop.                             *)
(***************************************************************************)
\* A lexer that inserts the Concatenate whatever need_concat holds.
WithConcat_Always(toks, nc, t) == toks \o <<ConcatToken, t>>

\* The tokens a character that starts an operand appends: the implicit
\* Concatenate when need_concat is set, then the operand's token.
WithConcat(toks, nc, t) == IF nc THEN toks \o <<ConcatToken, t>> ELSE toks \o <<t>>

\* The first offset at or after k holding ']', or the size when there is none.
RECURSIVE ScanRange(_, _)
ScanRange(s, k) ==
    IF k < Len(s) /\ CharAt(s, k) # Ord("]") THEN ScanRange(s, k + 1) ELSE k

\* The test of the first version of the lexer: no underscore.
IsLiteralChar_NoUnderscore(c) == isalnum(c)

\* std::isalnum(regex[i]) || regex[i] == '_'
IsLiteralChar(c) == isalnum(c) \/ c = Ord("_")

\* The state of the lexer after the iteration at offset k:
\* [ok, i, need_concat, tokens].
LexChar(s, k, nc, toks) ==
    LET c == CharAt(s, k)
        one(type, enc) == RegexToken(k, 1, type, enc)
    IN  IF IsLiteralChar(c)
        THEN [ok |-> TRUE, i |-> k + 1, need_concat |-> TRUE,
              tokens |-> WithConcat(toks, nc,
                             one(RegexTokenType_Character, RegexCharacterType_Single))]
        ELSE CASE c = Ord("|") ->
                 [ok |-> TRUE, i |-> k + 1, need_concat |-> FALSE,
                  tokens |-> toks \o
                      <<one(RegexTokenType_Operator, RegexOperatorType_Alternate)>>]
               [] c = Ord("*") ->
                 [ok |-> TRUE, i |-> k + 1, need_concat |-> nc,
                  tokens |-> toks \o
                      <<one(RegexTokenType_Operator, RegexOperatorType_ZeroOrMore)>>]
               [] c = Ord("+") ->
                 [ok |-> TRUE, i |-> k + 1, need_concat |-> nc,
                  tokens |-> toks \o
                      <<one(RegexTokenType_Operator, RegexOperatorType_OneOrMore)>>]
               [] c = Ord("?") ->
                 [ok |-> TRUE, i |-> k + 1, need_concat |-> nc,
                  tokens |-> toks \o
                      <<one(RegexTokenType_Operator, RegexOperatorType_ZeroOrOne)>>]
               [] c = Ord(".") ->
                 [ok |-> TRUE, i |-> k + 1, need_concat |-> TRUE,
                  tokens |-> WithConcat(toks, nc,
                                 one(RegexTokenType_Character, RegexCharacterType_Any))]
               [] c = Ord("(") ->
                 [ok |-> TRUE, i |-> k + 1, need_concat |-> FALSE,
                  tokens |-> WithConcat(toks, nc, one(RegexTokenType_GroupBegin, 0))]
               [] c = Ord(")") ->
                 [ok |-> TRUE, i |-> k + 1, need_concat |-> TRUE,
                  tokens |-> toks \o <<one(RegexTokenType_GroupEnd, 0)>>]
               [] c = Ord("[") ->
                 LET start == k + 1
                     close == ScanRange(s, start)
                     withc == IF nc THEN toks \o <<ConcatToken>> ELSE toks
                 IN  IF close >= Len(s)
                     THEN [ok |-> FALSE, i |-> close, need_concat |-> nc,
                           tokens |-> withc]
                     ELSE [ok |-> TRUE, i |-> close + 1, need_concat |-> TRUE,
                           tokens |-> withc \o
                               <<RegexToken(start, close - start,
                                            RegexTokenType_CharacterRange, 0)>>]
               [] OTHER ->
                 [ok |-> FALSE, i |-> k, need_concat |-> nc, tokens |-> toks]

(***************************************************************************)
(* parse_regex (shunting yard).                                            *)
(***************************************************************************)
\* Alternation binding tighter than concatenation.
get_operator_precedence_Swapped(op) ==
    CASE op = RegexOperatorType_Alternate -> 2
      [] op = RegexOperatorType_Concatenate -> 1
      [] op \in {RegexOperatorType_ZeroOrMore, RegexOperatorType_OneOrMore,
                 RegexOperatorType_ZeroOrOne} -> 3
      [] OTHER -> 0

get_operator_precedence(op) ==
    CASE op = RegexOperatorType_Alternate -> 1
      [] op = RegexOperatorType_Concatenate -> 2
      [] op \in {RegexOperatorType_ZeroOrMore, RegexOperatorType_OneOrMore,
                 RegexOperatorType_ZeroOrOne} -> 3
      [] OTHER -> 0

is_left_associative(op) ==
    CASE op \in {RegexOperatorType_Alternate, RegexOperatorType_Concatenate} -> TRUE
      [] op \in {RegexOperatorType_ZeroOrMore, RegexOperatorType_OneOrMore,
                 RegexOperatorType_ZeroOrOne} -> FALSE
      [] OTHER -> TRUE

Top(stack) == stack[Len(stack)]
Pop(stack) == SubSeq(stack, 1, Len(stack) - 1)

\* Whether the operator on top of the stack is moved to the output before
\* current_op is pushed.
PopsBefore(stack_op, current_op) ==
    LET stack_precedence == get_operator_precedence(stack_op)
        current_precedence == get_operator_precedence(current_op)
    IN  stack_precedence > current_precedence
        \/ (stack_precedence = current_precedence /\ is_left_associative(current_op))

\* The while loop of the Operator case: [output, operators] when it ends.
RECURSIVE PopOperators(_, _, _)
PopOperators(out, ops, current_op) ==
    IF ops # <<>>
       /\ Top(ops).type = RegexTokenType_Operator
       /\ PopsBefore(Top(ops).encoding, current_op)
    THEN PopOperators(Append(out, Top(ops)), Pop(ops), current_op)
    ELSE [output |-> out, operators |-> ops]

\* The while loop of the GroupEnd case: pops down to the nearest GroupBegin.
RECURSIVE PopToGroupBegin(_, _)
PopToGroupBegin(out, ops) ==
    IF ops # <<>> /\ Top(ops).type # RegexTokenType_GroupBegin
    THEN PopToGroupBegin(Append(out, Top(ops)), Pop(ops))
    ELSE [output |-> out, operators |-> ops]

\* A parser for postfix quantifiers: '*', '+' and '?' go straight to the output,
\* behind the operand that is already there.
ParseToken_QuantifiersToOutput(token, out, ops, gid) ==
    CASE token.type \in {RegexTokenType_Character, RegexTokenType_CharacterRange} ->
           [ok |-> TRUE, output |-> Append(out, token), operators |-> ops,
            current_group_id |-> gid]
      [] token.type = RegexTokenType_Operator
         /\ token.encoding \in {RegexOperatorType_ZeroOrMore, RegexOperatorType_OneOrMore,
                                RegexOperatorType_ZeroOrOne} ->
           [ok |-> TRUE, output |-> Append(out, token), operators |-> ops,
            current_group_id |-> gid]
      [] token.type = RegexTokenType_Operator ->
           LET r == PopOperators(out, ops, token.encoding)
           IN  [ok |-> TRUE, output |-> r.output,
                operators |-> Append(r.operators, token), current_group_id |-> gid]
      [] token.type = RegexTokenType_GroupBegin ->
           [ok |-> TRUE, output |-> out,
            operators |-> Append(ops, [token EXCEPT !.encoding = gid]),
            current_group_id |-> gid + 1]
      [] token.type = RegexTokenType_GroupEnd ->
           LET r == PopToGroupBegin(out, ops)
           IN  IF r.operators = <<>>
               THEN [ok |-> FALSE, output |-> r.output, operators |-> r.operators,
                     current_group_id |-> gid]
               ELSE [ok |-> TRUE, output |-> r.output, operators |-> Pop(r.operators),
                     current_group_id |-> gid]
      [] OTHER ->
           [ok |-> FALSE, output |-> out, operators |-> ops, current_group_id |-> gid]

\* One iteration of the for loop: [ok, output, operators, current_group_id].
ParseToken(token, out, ops, gid) ==
    CASE token.type \in {RegexTokenType_Character, RegexTokenType_CharacterRange} ->
           [ok |-> TRUE, output |-> Append(out, token), operators |-> ops,
            current_group_id |-> gid]
      [] token.type = RegexTokenType_Operator ->
           LET r == PopOperators(out, ops, token.encoding)
           IN  [ok |-> TRUE, output |-> r.output,
                operators |-> Append(r.operators, token), current_group_id |-> gid]
      [] token.type = RegexTokenType_GroupBegin ->
           [ok |-> TRUE, output |-> out,
            operators |-> Append(ops, [token EXCEPT !.encoding = gid]),
            current_group_id |-> gid + 1]
      [] token.type = RegexTokenType_GroupEnd ->
           LET r == PopToGroupBegin(out, ops)
           IN  IF r.operators = <<>>
               THEN [ok |-> FALSE, output |-> r.output, operators |-> r.operators,
                     current_group_id |-> gid]
               ELSE [ok |-> TRUE, output |-> r.output, operators |-> Pop(r.operators),
                     current_group_id |-> gid]
      [] OTHER ->
           [ok |-> FALSE, output |-> out, operators |-> ops, current_group_id |-> gid]

\* The final flush without its GroupBegin check.
RECURSIVE FlushOperators_NoGroupCheck(_, _)
FlushOperators_NoGroupCheck(out, ops) ==
    IF ops = <<>>
    THEN [ok |-> TRUE, output |-> out, operators |-> ops]
    ELSE FlushOperators_NoGroupCheck(Append(out, Top(ops)), Pop(ops))

\* The final while loop: flushes the operator stack, failing on a GroupBegin.
RECURSIVE FlushOperators(_, _)
FlushOperators(out, ops) ==
    IF ops = <<>>
    THEN [ok |-> TRUE, output |-> out, operators |-> ops]
    ELSE IF Top(ops).type = RegexTokenType_GroupBegin
         THEN [ok |-> FALSE, output |-> out, operators |-> ops]
         ELSE FlushOperators(Append(out, Top(ops)), Pop(ops))

(***************************************************************************)
(* Byte code.                                                              *)
(***************************************************************************)
RegexInstrOpCode_TestSingle == 0
RegexInstrOpCode_TestRange == 1
RegexInstrOpCode_TestNegatedRange == 2
RegexInstrOpCode_TestAny == 3
RegexInstrOpCode_TestDigit == 4
RegexInstrOpCode_TestLowerCase == 5
RegexInstrOpCode_TestUpperCase == 6
RegexInstrOpCode_JumpEq == 7
RegexInstrOpCode_JumpNeq == 8
RegexInstrOpCode_Accept == 9
RegexInstrOpCode_Fail == 10
RegexInstrOpCode_GroupStart == 11
RegexInstrOpCode_GroupEnd == 12
RegexInstrOpCode_IncPos == 13
RegexInstrOpCode_DecPos == 14
RegexInstrOpCode_IncPosEq == 15
RegexInstrOpCode_JumpPos == 16
RegexInstrOpCode_SetFlag == 17

RegexInstrOpType_TestOp == 0
RegexInstrOpType_UnaryOp == 1
RegexInstrOpType_BinaryOp == 2
RegexInstrOpType_GroupOp == 3

\* std::numeric_limits<int>::max()
JUMP_FAIL == 2147483647

\* BYTE / CHAR: the byte of a (signed) char and back.
BYTE(c) == IF c < 0 THEN c + 256 ELSE c
CHAR(b) == IF b >= 128 THEN b - 256 ELSE b

\* The four bytes of a non-negative int below 2^31, most significant first.
BytesOf(u) ==
    <<(u \div 16777216) % 256, (u \div 65536) % 256, (u \div 256) % 256, u % 256>>

\* encode_jump: the big-endian two's complement bytes of a 32-bit int.
encode_jump(jump_size) ==
    IF jump_size >= 0
    THEN BytesOf(jump_size)
    ELSE LET n == BytesOf(-(jump_size + 1))
         IN  <<255 - n[1], 255 - n[2], 255 - n[3], 255 - n[4]>>

\* decode_jump of the four bytes at 0-based offset at of code.
decode_jump(code, at) ==
    LET b1 == code[at + 1]
        b2 == code[at + 2]
        b3 == code[at + 3]
        b4 == code[at + 4]
    IN  IF b1 < 128
        THEN b1 * 16777216 + b2 * 65536 + b3 * 256 + b4
        ELSE -((255 - b1) * 16777216 + (255 - b2) * 65536 + (255 - b3) * 256
               + (255 - b4)) - 1

\* emit_jump appends the opcode and a zero operand; the operand's offset is the
\* size of code plus one.
emit_jump(code, op) == code \o <<op>> \o encode_jump(0)

\* patch_jump: the operand at 0-based offset jump_pos overwritten.
patch_jump(code, jump_pos, offset) ==
    LET b == encode_jump(offset)
    IN  [k \in 1..Len(code) |->
            IF k - 1 >= jump_pos /\ k - 1 < jump_pos + 4
            THEN b[k - jump_pos] ELSE code[k]]

get_range_instrs(range_start, range_end) ==
    IF range_start = Ord("0") /\ range_end = Ord("9")
    THEN <<RegexInstrOpCode_TestDigit, RegexInstrOpCode_IncPosEq>>
    ELSE IF range_start = Ord("a") /\ range_end = Ord("z")
    THEN <<RegexInstrOpCode_TestLowerCase, RegexInstrOpCode_IncPosEq>>
    ELSE IF range_start = Ord("A") /\ range_end = Ord("Z")
    THEN <<RegexInstrOpCode_TestUpperCase, RegexInstrOpCode_IncPosEq>>
    ELSE <<RegexInstrOpCode_TestRange, BYTE(range_start), BYTE(range_end),
           RegexInstrOpCode_IncPosEq>>

Fragment(op_type, code) == [op_type |-> op_type, code |-> code]

(***************************************************************************)
(* regex_emit: the fragment each operator builds.                          *)
(***************************************************************************)
EmitAlternate(lhs, rhs) ==
    LET jump_over_rhs_pos == Len(lhs) + 1
        frag == emit_jump(lhs, RegexInstrOpCode_JumpEq) \o rhs
        offset == Len(frag) - (jump_over_rhs_pos - 1)
    IN  patch_jump(frag, jump_over_rhs_pos, offset)

\* Concatenate without the fail-jump after the left operand.
EmitConcatenate_NoFailJump(lhs, rhs) == lhs \o rhs

EmitConcatenate(lhs, rhs) ==
    LET jump_pos == Len(lhs) + 1
    IN  patch_jump(emit_jump(lhs, RegexInstrOpCode_JumpNeq), jump_pos, JUMP_FAIL) \o rhs

EmitZeroOrMore(body) ==
    LET loop_body_start == 0
        offset_back == loop_body_start - Len(body)
        loop_jump_pos == Len(body) + 1
    IN  patch_jump(emit_jump(body, RegexInstrOpCode_JumpEq), loop_jump_pos, offset_back)
        \o <<RegexInstrOpCode_SetFlag, 1>>

EmitOneOrMore(body) ==
    LET fail_jump_pos == Len(body) + 1
        first == patch_jump(emit_jump(body, RegexInstrOpCode_JumpNeq),
                            fail_jump_pos, JUMP_FAIL)
        loop_start == Len(first)
        exit_loop_jump_pos == Len(first) + Len(body) + 1
        upto_flag == emit_jump(first \o body, RegexInstrOpCode_JumpNeq)
                     \o <<RegexInstrOpCode_SetFlag, 1>>
        offset_back == loop_start - Len(upto_flag)
        loop_jump_pos == Len(upto_flag) + 1
        frag == patch_jump(emit_jump(upto_flag, RegexInstrOpCode_JumpEq),
                           loop_jump_pos, offset_back)
    IN  patch_jump(frag, exit_loop_jump_pos, Len(frag) - (exit_loop_jump_pos - 1))

EmitZeroOrOne(body) == body \o <<RegexInstrOpCode_SetFlag, 1>>

\* How many fragments the token's case takes from the fragment stack.
FragmentsTaken(token) ==
    IF token.type # RegexTokenType_Operator THEN 0
    ELSE IF token.encoding \in {RegexOperatorType_Alternate, RegexOperatorType_Concatenate}
         THEN 2
    ELSE IF token.encoding \in {RegexOperatorType_ZeroOrMore, RegexOperatorType_OneOrMore,
                                RegexOperatorType_ZeroOrOne}
         THEN 1
    ELSE 0

\* One iteration of the for loop on a fragment stack that holds the fragments
\* the token takes; d0 and d2 are the bytes read at token.data[0] and
\* token.data[2].
EmitToken(token, frags, d0, d2) ==
    LET n == Len(frags)
    IN  CASE token.type = RegexTokenType_Character ->
               Append(frags, Fragment(RegexInstrOpType_TestOp,
                   (CASE token.encoding = RegexCharacterType_Single ->
                           <<RegexInstrOpCode_TestSingle, BYTE(d0)>>
                      [] token.encoding = RegexCharacterType_Any ->
                           <<RegexInstrOpCode_TestAny>>
                      [] OTHER -> <<>>)
                   \o <<RegexInstrOpCode_IncPosEq>>))
          [] token.type = RegexTokenType_CharacterRange ->
               Append(frags, Fragment(RegexInstrOpType_TestOp, get_range_instrs(d0, d2)))
          [] token.type = RegexTokenType_GroupBegin ->
               Append(frags, Fragment(RegexInstrOpType_GroupOp,
                   <<RegexInstrOpCode_GroupStart, token.encoding % 256>>))
          [] token.type = RegexTokenType_GroupEnd ->
               Append(frags, Fragment(RegexInstrOpType_GroupOp,
                   <<RegexInstrOpCode_GroupEnd, token.encoding % 256>>))
          [] token.type = RegexTokenType_Operator ->
               (CASE token.encoding = RegexOperatorType_Alternate ->
                       Append(SubSeq(frags, 1, n - 2), Fragment(RegexInstrOpType_BinaryOp,
                           EmitAlternate(frags[n - 1].code, frags[n].code)))
                  [] token.encoding = RegexOperatorType_Concatenate ->
                       Append(SubSeq(frags, 1, n - 2), Fragment(RegexInstrOpType_BinaryOp,
                           EmitConcatenate(frags[n - 1].code, frags[n].code)))
                  [] token.encoding = RegexOperatorType_ZeroOrMore ->
                       Append(SubSeq(frags, 1, n - 1), Fragment(RegexInstrOpType_UnaryOp,
                           EmitZeroOrMore(frags[n].code)))
                  [] token.encoding = RegexOperatorType_OneOrMore ->
                       Append(SubSeq(frags, 1, n - 1), Fragment(RegexInstrOpType_UnaryOp,
                           EmitOneOrMore(frags[n].code)))
                  [] token.encoding = RegexOperatorType_ZeroOrOne ->
                       Append(SubSeq(frags, 1, n - 1), Fragment(RegexInstrOpType_UnaryOp,
                           EmitZeroOrOne(frags[n].code)))
                  [] OTHER -> frags)
          [] OTHER -> frags

\* How far the patch pass steps over the instruction whose opcode is op.
PatchStride(op) ==
    CASE op \in {RegexInstrOpCode_JumpEq, RegexInstrOpCode_JumpNeq,
                 RegexInstrOpCode_JumpPos} -> 5
      [] op \in {RegexInstrOpCode_TestSingle, RegexInstrOpCode_SetFlag} -> 2
      [] op \in {RegexInstrOpCode_TestRange, RegexInstrOpCode_TestNegatedRange} -> 3
      [] OTHER -> 1

\* The offset the patch pass writes into the sentinel jump whose opcode is at k.
FailOffset(code, k) == Len(code) - (k + 5)

\* The patch pass from 0-based offset k on: every JumpEq / JumpNeq operand that
\* holds JUMP_FAIL is rewritten.
RECURSIVE PatchPass(_, _)
PatchPass(code, k) ==
    IF k >= Len(code) THEN code
    ELSE LET op == code[k + 1]
         IN  IF op \in {RegexInstrOpCode_JumpEq, RegexInstrOpCode_JumpNeq}
                /\ decode_jump(code, k + 1) = JUMP_FAIL
             THEN PatchPass(patch_jump(code, k + 1, FailOffset(code, k)), k + 5)
             ELSE PatchPass(code, k + PatchStride(op))

\* regex_emit without the case of the empty fragment stack: an empty fragment
\* is assembled like any other.
EmitFinal_NoEmptyCase(frags) ==
    LET top == IF frags = <<>> THEN <<>> ELSE Top(frags).code
        code == patch_jump(emit_jump(top, RegexInstrOpCode_JumpNeq), Len(top) + 1, JUMP_FAIL)
                \o <<RegexInstrOpCode_Accept, RegexInstrOpCode_Fail>>
    IN  PatchPass(code, 0)

\* What regex_emit returns once the postfix tokens are consumed.
EmitFinal(frags) ==
    IF frags = <<>>
    THEN <<RegexInstrOpCode_Accept>>
    ELSE LET top == Top(frags).code
             final_fail_jump == Len(top) + 1
             code == patch_jump(emit_jump(top, RegexInstrOpCode_JumpNeq),
                                final_fail_jump, JUMP_FAIL)
                     \o <<RegexInstrOpCode_Accept, RegexInstrOpCode_Fail>>
         IN  PatchPass(code, 0)

(***************************************************************************)
(* regex_exec.                                                             *)
(***************************************************************************)
\* A size_t that wrapped around below zero: beyond every program and subject.
SizeMax == 2147483647

\* size_t arithmetic: v + d modulo 2^64, every wrapped or oversized value
\* standing as SizeMax.
SizeAdd(v, d) ==
    IF v = SizeMax \/ d > 1000000 \/ v + d < 0 THEN SizeMax ELSE v + d

\* vm->string[vm->sp] for sp <= size: the terminator at sp = size.
StringAt(str, sp) == IF sp < Len(str) THEN str[sp + 1] ELSE 0

RegexVM(bc, str) == [string |-> str, sp |-> 0, pc |-> 0, status_flag |-> FALSE]

\* The configuration of a VM: what its next iteration depends on besides the
\* program and the subject.
Config(v) == <<v.pc, v.sp, v.status_flag>>

\* A loop that goes on until pc leaves the program, wherever sp is.
LoopGuard_PcOnly(code, v) == v.pc < Len(code)

\* while(vm->pc < vm->bytecode.size() && vm->sp <= vm->string.size())
LoopGuard(code, v) == v.pc < Len(code) /\ v.sp <= Len(v.string)

\* A jump that adds every offset to the address after its operand.
JumpTarget_Uniform(code, v, taken) ==
    IF taken THEN SizeAdd(v.pc + 5, decode_jump(code, v.pc + 1)) ELSE v.pc + 5

\* Where a JumpEq / JumpNeq at v.pc leaves pc, taken telling whether it jumps.
JumpTarget(code, v, taken) ==
    IF taken
    THEN LET jmp == decode_jump(code, v.pc + 1)
         IN  SizeAdd(IF jmp > 0 THEN v.pc + 5 ELSE v.pc, jmp)
    ELSE v.pc + 5

\* One iteration of the loop: [vm, ret], ret being "none" while the loop goes
\* on, "true" or "false" when the instruction returns.
ExecInstr(code, v) ==
    LET op == code[v.pc + 1]
        c == StringAt(v.string, v.sp)
        go(w) == [vm |-> w, ret |-> "none"]
    IN  CASE op = RegexInstrOpCode_TestSingle ->
               go([v EXCEPT !.status_flag = (c = CHAR(code[v.pc + 2])), !.pc = v.pc + 2])
          [] op = RegexInstrOpCode_TestRange ->
               go([v EXCEPT !.status_flag = (c >= CHAR(code[v.pc + 2])
                                             /\ c <= CHAR(code[v.pc + 3])),
                            !.pc = v.pc + 3])
          [] op = RegexInstrOpCode_TestNegatedRange ->
               go([v EXCEPT !.status_flag = (c < CHAR(code[v.pc + 2])
                                             /\ c > CHAR(code[v.pc + 3])),
                            !.pc = v.pc + 3])
          [] op = RegexInstrOpCode_TestAny ->
               go([v EXCEPT !.status_flag = TRUE, !.pc = v.pc + 1])
          [] op = RegexInstrOpCode_TestDigit ->
               go([v EXCEPT !.status_flag = isdigit(c), !.pc = v.pc + 1])
          [] op = RegexInstrOpCode_TestLowerCase ->
               go([v EXCEPT !.status_flag = islower(c), !.pc = v.pc + 1])
          [] op = RegexInstrOpCode_TestUpperCase ->
               go([v EXCEPT !.status_flag = isupper(c), !.pc = v.pc + 1])
          [] op = RegexInstrOpCode_JumpEq ->
               go([v EXCEPT !.pc = JumpTarget(code, v, v.status_flag)])
          [] op = RegexInstrOpCode_JumpNeq ->
               go([v EXCEPT !.pc = JumpTarget(code, v, ~v.status_flag)])
          [] op = RegexInstrOpCode_Accept -> [vm |-> v, ret |-> "true"]
          [] op = RegexInstrOpCode_Fail -> [vm |-> v, ret |-> "false"]
          [] op \in {RegexInstrOpCode_GroupStart, RegexInstrOpCode_GroupEnd} ->
               go([v EXCEPT !.pc = v.pc + 2])
          [] op = RegexInstrOpCode_IncPos ->
               go([v EXCEPT !.sp = SizeAdd(v.sp, 1), !.pc = v.pc + 1])
          [] op = RegexInstrOpCode_DecPos ->
               go([v EXCEPT !.sp = SizeAdd(v.sp, -1), !.pc = v.pc + 1])
          [] op = RegexInstrOpCode_IncPosEq ->
               go([v EXCEPT !.sp = v.sp + (IF v.status_flag THEN 1 ELSE 0),
                            !.pc = v.pc + 1])
          [] op = RegexInstrOpCode_JumpPos ->
               go([v EXCEPT !.sp = SizeAdd(v.sp, decode_jump(code, v.pc + 1)),
                            !.pc = v.pc + 5])
          [] op = RegexInstrOpCode_SetFlag ->
               go([v EXCEPT !.status_flag = (code[v.pc + 2] # 0), !.pc = v.pc + 2])
          [] OTHER -> [vm |-> v, ret |-> "false"]

(***************************************************************************)
(* The patterns and subjects of the model.                                 *)
(***************************************************************************)
SeqsUpTo(S, n) == UNION {[1..k -> S] : k \in 0..n}

\* Every pattern of at most MaxRegexLen characters over these.
PatChars ==
    {Ord(c) : c \in {"a", "1", "_", "|", "*", "+", "?", "(", ")", ".", "[", "]", "-"}}

ShortPatterns == SeqsUpTo(PatChars, MaxRegexLen)

\* One literal or one bracket expression, then at most one quantifier.
RangeEnds == {"0", "9", "a", "z", "A", "Z", "1", "NUL"}
Quantifiers == {<<>>, <<"*">>, <<"+">>, <<"?">>}
BracketPatterns ==
    {Str(<<"[", x, "-", y, "]">> \o q) : x \in RangeEnds, y \in RangeEnds, q \in Quantifiers}

\* The patterns of the source's main and of the specification's examples.
CorpusPatterns ==
    {Str(<<"a", "*", "b", "|", "c", "d">>),
     Str(<<"a", "?", "[", "b", "-", "e", "]", "+">>),
     Str(<<"a", "?", "(", "[", "b", "-", "e", "]", ")", "+">>),
     Str(<<"a", "+", "b", "|", "c">>),
     Str(<<"(", "a", "|", "b", ")", "*", "c">>)}

\* Alternations of two and of three operands, and quantified groups of them.
Operands ==
    {Str(<<"a">>), Str(<<"1">>), Str(<<"a", "*">>), Str(<<"a", "+">>), Str(<<"1", "?">>),
     Str(<<"a", "1">>)}
Alternations2 == {x \o Str(<<"|">>) \o y : x \in Operands, y \in Operands}
Alternations3 == {x \o Str(<<"|">>) \o y : x \in Alternations2, y \in Operands}
GroupPatterns ==
    {Str(<<"(">>) \o x \o Str(<<")">>) \o Str(q) :
        x \in Operands \cup Alternations2, q \in Quantifiers \ {<<>>}}

\* A pattern whose program is longer than 255 bytes, so that a jump operand has
\* more than one non-zero byte: (a|1)? followed by four '.' and 94 literals.
LongPatterns ==
    {Str(<<"(", "a", "|", "1", ")", "?", ".", ".", ".", ".">>) \o [k \in 1..94 |-> Ord("a")]}

\* A quantifier written before its operand: at the start of the pattern,
\* after '|' and after '('.
PrefixOperands ==
    {Str(<<"a">>), Str(<<".">>), Str(<<"[", "0", "-", "9", "]">>), Str(<<"(", "a", ")">>)}
PrefixPatterns ==
    UNION {{Str(q) \o x,
            Str(<<"a", "|">>) \o Str(q) \o x,
            Str(<<"(">>) \o Str(q) \o x \o Str(<<")">>)} :
           x \in PrefixOperands, q \in Quantifiers \ {<<>>}}

Patterns ==
    ShortPatterns \cup BracketPatterns \cup CorpusPatterns \cup Alternations2
    \cup Alternations3 \cup GroupPatterns \cup LongPatterns \cup PrefixPatterns

SubjChars == {Ord("a"), Ord("1")}
CorpusSubjects ==
    {Str(<<"a", "a", "c", "d">>), Str(<<"b", "d">>), Str(<<"a", "a", "c", "a", "c", "d">>),
     Str(<<"a", "b", "c", "d", "e", "b">>), Str(<<"r", "b", "c">>)}

Subjects == SeqsUpTo(SubjChars, MaxStrLen) \cup CorpusSubjects

\* What a read beyond the pattern's terminator may find.
GarbageBytes == {0, Ord("z")}

(***************************************************************************)
(* Regex::Regex -> _compile -> lex_regex, parse_regex, regex_emit;         *)
(* Regex::match -> regex_exec.                                             *)
(***************************************************************************)
NoVM == RegexVM(<<>>, <<>>)

InitWith(patterns) ==
    /\ regex \in patterns
    /\ phase = "lex"
    /\ i = 0
    /\ need_concat = FALSE
    /\ tokens = <<>>
    /\ tok = 0
    /\ output = <<>>
    /\ operators = <<>>
    /\ current_group_id = 1
    /\ fragments = <<>>
    /\ bytecode = <<>>
    /\ compiled = "pending"
    /\ ub = "none"
    /\ vm = NoVM
    /\ res = "none"
    /\ seen = {}
    /\ phase2 = "ready"
    /\ vm2 = NoVM
    /\ res2 = "none"
    /\ overlapped = FALSE

Init == InitWith(Patterns)

LexStep ==
    /\ phase = "lex"
    /\ i < Len(regex)
    /\ LET r == LexChar(regex, i, need_concat, tokens)
       IN  /\ r.ok
           /\ i' = r.i
           /\ need_concat' = r.need_concat
           /\ tokens' = r.tokens
    /\ UNCHANGED <<regex, phase, tok, parseVars, fragments, bytecode, compiled, ub, vmVars, callVars>>

\* lex_regex returns false: _compile returns false, _bytecode stays cleared.
LexFail ==
    /\ phase = "lex"
    /\ i < Len(regex)
    /\ LET r == LexChar(regex, i, need_concat, tokens)
       IN  /\ ~r.ok
           /\ tokens' = r.tokens
    /\ phase' = "ready"
    /\ compiled' = "lex_failed"
    /\ UNCHANGED <<regex, i, need_concat, tok, parseVars, fragments, bytecode, ub, vmVars, callVars>>

LexReturn ==
    /\ phase = "lex"
    /\ i >= Len(regex)
    /\ phase' = "parse"
    /\ tok' = 0
    /\ UNCHANGED <<regex, lexVars, parseVars, fragments, bytecode, compiled, ub, vmVars, callVars>>

ParseStep ==
    /\ phase = "parse"
    /\ tok < Len(tokens)
    /\ LET r == ParseToken(tokens[tok + 1], output, operators, current_group_id)
       IN  /\ r.ok
           /\ output' = r.output
           /\ operators' = r.operators
           /\ current_group_id' = r.current_group_id
    /\ tok' = tok + 1
    /\ UNCHANGED <<regex, phase, lexVars, fragments, bytecode, compiled, ub, vmVars, callVars>>

\* A GroupEnd with no GroupBegin on the stack.
ParseFail ==
    /\ phase = "parse"
    /\ tok < Len(tokens)
    /\ LET r == ParseToken(tokens[tok + 1], output, operators, current_group_id)
       IN  /\ ~r.ok
           /\ output' = r.output
           /\ operators' = r.operators
    /\ phase' = "ready"
    /\ compiled' = "parse_failed"
    /\ UNCHANGED <<regex, lexVars, tok, current_group_id, fragments, bytecode, ub, vmVars, callVars>>

ParseFlush ==
    /\ phase = "parse"
    /\ tok >= Len(tokens)
    /\ LET r == FlushOperators(output, operators)
       IN  /\ r.ok
           /\ output' = r.output
           /\ operators' = r.operators
    /\ phase' = "emit"
    /\ tok' = 0
    /\ UNCHANGED <<regex, lexVars, current_group_id, fragments, bytecode, compiled, ub, vmVars, callVars>>

\* A GroupBegin left on the stack.
ParseFlushFail ==
    /\ phase = "parse"
    /\ tok >= Len(tokens)
    /\ LET r == FlushOperators(output, operators)
       IN  /\ ~r.ok
           /\ output' = r.output
           /\ operators' = r.operators
    /\ phase' = "ready"
    /\ compiled' = "parse_failed"
    /\ UNCHANGED <<regex, lexVars, tok, current_group_id, fragments, bytecode, ub, vmVars, callVars>>

\* token.data[k] read from the pattern's buffer, the terminator included.
PatternAt(s, token, k) ==
    IF token.data = nullptr THEN 0
    ELSE IF token.data + k < Len(s) THEN CharAt(s, token.data + k) ELSE 0

\* Whether the case of the token reads token.data[2] beyond the terminator.
ReadsBeyondPattern(s, token) ==
    token.type = RegexTokenType_CharacterRange /\ token.data + 2 > Len(s)

EmitStep ==
    /\ phase = "emit"
    /\ tok < Len(output)
    /\ LET token == output[tok + 1]
       IN  /\ Len(fragments) >= FragmentsTaken(token)
           /\ ~ReadsBeyondPattern(regex, token)
           /\ fragments' = EmitToken(token, fragments, PatternAt(regex, token, 0),
                                     PatternAt(regex, token, 2))
    /\ tok' = tok + 1
    /\ UNCHANGED <<regex, phase, lexVars, parseVars, bytecode, compiled, ub, vmVars, callVars>>

\* token.data[2] lies beyond the pattern's buffer: the read is undefined and
\* yields whatever byte is there.
EmitRangeBeyondPattern ==
    /\ phase = "emit"
    /\ tok < Len(output)
    /\ LET token == output[tok + 1]
       IN  /\ ReadsBeyondPattern(regex, token)
           /\ \E g \in GarbageBytes :
                  fragments' = EmitToken(token, fragments, PatternAt(regex, token, 0), g)
    /\ ub' = IF ub = "none" THEN "range_read_beyond_pattern" ELSE ub
    /\ tok' = tok + 1
    /\ UNCHANGED <<regex, phase, lexVars, parseVars, bytecode, compiled, vmVars, callVars>>

\* fragments.top() / pop() on a stack that holds fewer fragments than the
\* operator takes: undefined behaviour. Either the process dies ...
EmitUnderflowCrash ==
    /\ phase = "emit"
    /\ tok < Len(output)
    /\ Len(fragments) < FragmentsTaken(output[tok + 1])
    /\ ub' = IF ub = "none" THEN "empty_fragment_stack" ELSE ub
    /\ phase' = "crashed"
    /\ UNCHANGED <<regex, lexVars, tok, parseVars, fragments, bytecode, compiled, vmVars, callVars>>

\* ... or top() yields an indeterminate fragment (here: an empty byte vector)
\* for each missing operand and the emitter goes on.
EmitUnderflowGarbage ==
    /\ phase = "emit"
    /\ tok < Len(output)
    /\ LET token == output[tok + 1]
           missing == FragmentsTaken(token) - Len(fragments)
           padded == [k \in 1..missing |-> Fragment(RegexInstrOpType_TestOp, <<>>)]
                     \o fragments
       IN  /\ missing > 0
           /\ fragments' = EmitToken(token, padded, 0, 0)
    /\ ub' = IF ub = "none" THEN "empty_fragment_stack" ELSE ub
    /\ tok' = tok + 1
    /\ UNCHANGED <<regex, phase, lexVars, parseVars, bytecode, compiled, vmVars, callVars>>

\* regex_emit returns; _compile stores the byte code and returns true.
EmitReturn ==
    /\ phase = "emit"
    /\ tok >= Len(output)
    /\ bytecode' = EmitFinal(fragments)
    /\ compiled' = "ok"
    /\ phase' = "ready"
    /\ UNCHANGED <<regex, lexVars, tok, parseVars, fragments, ub, vmVars, callVars>>

\* A match that takes no program for empty.
IsEmptyProgram_Never(bc) == FALSE

\* if(this->_bytecode.size() == 0)
IsEmptyProgram(bc) == Len(bc) = 0

\* Regex::match on an empty program returns false without a VM.
MatchEmpty ==
    /\ phase = "ready"
    /\ compiled # "pending"
    /\ IsEmptyProgram(bytecode)
    /\ res' = "false"
    /\ UNCHANGED <<regex, phase, lexVars, tok, parseVars, fragments, bytecode, compiled,
                   ub, vm, seen, call2Vars, overlapped>>

\* A call whose VM keeps the string position of the call before it.
MatchStart_StaleVM ==
    /\ phase = "ready"
    /\ compiled # "pending"
    /\ ~IsEmptyProgram(bytecode)
    /\ \E str \in Subjects : vm' = [RegexVM(bytecode, str) EXCEPT !.sp = vm.sp]
    /\ res' = "none"
    /\ seen' = {}
    /\ phase' = "exec"
    /\ UNCHANGED <<regex, lexVars, tok, parseVars, fragments, bytecode, compiled, ub,
                   call2Vars, overlapped>>

\* Regex::match(str) builds its RegexVM and enters regex_exec.
MatchStart ==
    /\ phase = "ready"
    /\ compiled # "pending"
    /\ ~IsEmptyProgram(bytecode)
    /\ \E str \in Subjects : vm' = RegexVM(bytecode, str)
    /\ res' = "none"
    /\ seen' = {}
    /\ phase' = "exec"
    /\ UNCHANGED <<regex, lexVars, tok, parseVars, fragments, bytecode, compiled, ub,
                   call2Vars, overlapped>>

\* One iteration of regex_exec's loop.
ExecStep ==
    /\ phase = "exec"
    /\ LoopGuard(bytecode, vm)
    /\ LET r == ExecInstr(bytecode, vm)
       IN  /\ vm' = r.vm
           /\ res' = r.ret
           /\ phase' = IF r.ret = "none" THEN "exec" ELSE "ready"
    /\ seen' = seen \cup {Config(vm)}
    /\ overlapped' = (overlapped \/ phase2 = "exec")
    /\ UNCHANGED <<regex, lexVars, tok, parseVars, fragments, bytecode, compiled, ub,
                   call2Vars>>

\* The loop guard fails: regex_exec returns false.
ExecExit ==
    /\ phase = "exec"
    /\ ~LoopGuard(bytecode, vm)
    /\ res' = "false"
    /\ phase' = "ready"
    /\ UNCHANGED <<regex, lexVars, tok, parseVars, fragments, bytecode, compiled, ub,
                   vm, seen, callVars>>

Next ==
    \/ LexStep \/ LexFail \/ LexReturn
    \/ ParseStep \/ ParseFail \/ ParseFlush \/ ParseFlushFail
    \/ EmitStep \/ EmitRangeBeyondPattern \/ EmitUnderflowCrash \/ EmitUnderflowGarbage
    \/ EmitReturn
    \/ MatchEmpty \/ MatchStart \/ ExecStep \/ ExecExit

Spec == Init /\ [][Next]_vars

(***************************************************************************)
(* A second caller of Regex::match on the same object, its call running    *)
(* before, after or interleaved with the first caller's.                   *)
(***************************************************************************)
\* The object is constructed: the constructor has returned.
Constructed == phase \in {"ready", "exec"} /\ compiled # "pending"

Match2Empty ==
    /\ Constructed
    /\ phase2 = "ready"
    /\ IsEmptyProgram(bytecode)
    /\ res2' = "false"
    /\ UNCHANGED <<regex, phase, lexVars, tok, parseVars, fragments, bytecode, compiled,
                   ub, vmVars, phase2, vm2, overlapped>>

Match2Start ==
    /\ Constructed
    /\ phase2 = "ready"
    /\ ~IsEmptyProgram(bytecode)
    /\ \E str \in Subjects : vm2' = RegexVM(bytecode, str)
    /\ res2' = "none"
    /\ phase2' = "exec"
    /\ UNCHANGED <<regex, phase, lexVars, tok, parseVars, fragments, bytecode, compiled,
                   ub, vmVars, overlapped>>

\* A second call whose string position is storage shared with the first call.
Exec2Step_SharedSp ==
    /\ phase2 = "exec"
    /\ LoopGuard(bytecode, vm2)
    /\ LET r == ExecInstr(bytecode, vm2)
       IN  /\ vm2' = r.vm
           /\ res2' = r.ret
           /\ phase2' = IF r.ret = "none" THEN "exec" ELSE "ready"
           /\ vm' = IF phase = "exec" THEN [vm EXCEPT !.sp = r.vm.sp] ELSE vm
    /\ overlapped' = (overlapped \/ phase = "exec")
    /\ UNCHANGED <<regex, phase, lexVars, tok, parseVars, fragments, bytecode, compiled,
                   ub, res, seen>>

Exec2Step ==
    /\ phase2 = "exec"
    /\ LoopGuard(bytecode, vm2)
    /\ LET r == ExecInstr(bytecode, vm2)
       IN  /\ vm2' = r.vm
           /\ res2' = r.ret
           /\ phase2' = IF r.ret = "none" THEN "exec" ELSE "ready"
    /\ overlapped' = (overlapped \/ phase = "exec")
    /\ UNCHANGED <<regex, phase, lexVars, tok, parseVars, fragments, bytecode, compiled,
                   ub, vmVars>>

Exec2Exit ==
    /\ phase2 = "exec"
    /\ ~LoopGuard(bytecode, vm2)
    /\ res2' = "false"
    /\ phase2' = "ready"
    /\ UNCHANGED <<regex, phase, lexVars, tok, parseVars, fragments, bytecode, compiled,
                   ub, vmVars, vm2, overlapped>>

\* The patterns of the objects that have two callers: patterns of the source's
\* main, a concatenation, and one pattern for each way _compile can end.
CallPatterns ==
    {Str(<<"a", "*", "b", "|", "c", "d">>),
     Str(<<"a", "?", "[", "b", "-", "e", "]", "+">>),
     Str(<<"[", "0", "-", "9", "]", "+">>),
     Str(<<"a", "1">>),
     Str(<<"-">>), Str(<<")">>), Str(<<"(">>), Str(<<"*">>), Str(<<"[", "]">>)}

InitCalls == InitWith(CallPatterns)

NextCalls ==
    \/ Next
    \/ Match2Empty \/ Match2Start \/ Exec2Step \/ Exec2Exit

SpecCalls == InitCalls /\ [][NextCalls]_vars

(***************************************************************************)
(* The pipeline as functions: what _compile and match compute for a        *)
(* pattern and a subject, by the same steps as the actions above.          *)
(***************************************************************************)
RECURSIVE LexFrom(_, _, _, _)
LexFrom(s, k, nc, toks) ==
    IF k >= Len(s) THEN [ok |-> TRUE, tokens |-> toks]
    ELSE LET r == LexChar(s, k, nc, toks)
         IN  IF r.ok THEN LexFrom(s, r.i, r.need_concat, r.tokens)
             ELSE [ok |-> FALSE, tokens |-> r.tokens]

RECURSIVE ParseFrom(_, _, _, _, _)
ParseFrom(toks, n, out, ops, gid) ==
    IF n >= Len(toks) THEN FlushOperators(out, ops)
    ELSE LET r == ParseToken(toks[n + 1], out, ops, gid)
         IN  IF r.ok THEN ParseFrom(toks, n + 1, r.output, r.operators, r.current_group_id)
             ELSE [ok |-> FALSE, output |-> r.output, operators |-> r.operators]

\* The fragment stack after the postfix tokens from n on; ok is FALSE when a
\* step is undefined (empty fragment stack, read beyond the pattern).
RECURSIVE EmitFrom(_, _, _, _)
EmitFrom(s, post, n, frags) ==
    IF n >= Len(post) THEN [ok |-> TRUE, fragments |-> frags]
    ELSE LET token == post[n + 1]
         IN  IF Len(frags) < FragmentsTaken(token) \/ ReadsBeyondPattern(s, token)
             THEN [ok |-> FALSE, fragments |-> frags]
             ELSE EmitFrom(s, post, n + 1,
                           EmitToken(token, frags, PatternAt(s, token, 0),
                                     PatternAt(s, token, 2)))

\* _compile(s): [status, fragments, bytecode]; status "undefined" when the
\* emitter's behaviour is undefined.
CompileOf(s) ==
    LET l == LexFrom(s, 0, FALSE, <<>>)
        p == ParseFrom(l.tokens, 0, <<>>, <<>>, 1)
        e == EmitFrom(s, p.output, 0, <<>>)
    IN  IF ~l.ok THEN [status |-> "lex_failed", fragments |-> <<>>, bytecode |-> <<>>]
        ELSE IF ~p.ok
        THEN [status |-> "parse_failed", fragments |-> <<>>, bytecode |-> <<>>]
        ELSE IF ~e.ok
        THEN [status |-> "undefined", fragments |-> e.fragments, bytecode |-> <<>>]
        ELSE [status |-> "ok", fragments |-> e.fragments,
              bytecode |-> EmitFinal(e.fragments)]

\* The fragment stack of a compilation in which every read beyond the pattern
\* finds the byte g; ok is FALSE when the fragment stack underflows.
RECURSIVE EmitFromReading(_, _, _, _, _)
EmitFromReading(s, post, n, frags, g) ==
    IF n >= Len(post) THEN [ok |-> TRUE, fragments |-> frags]
    ELSE LET token == post[n + 1]
             d2 == IF ReadsBeyondPattern(s, token) THEN g ELSE PatternAt(s, token, 2)
         IN  IF Len(frags) < FragmentsTaken(token)
             THEN [ok |-> FALSE, fragments |-> frags]
             ELSE EmitFromReading(s, post, n + 1,
                                  EmitToken(token, frags, PatternAt(s, token, 0), d2), g)

\* The program _compile stores for s in such a compilation (<<>> when it
\* stores none).
ProgramReading(s, g) ==
    LET l == LexFrom(s, 0, FALSE, <<>>)
        p == ParseFrom(l.tokens, 0, <<>>, <<>>, 1)
        e == EmitFromReading(s, p.output, 0, <<>>, g)
    IN  IF l.ok /\ p.ok /\ e.ok THEN EmitFinal(e.fragments) ELSE <<>>

\* regex_exec from VM state v, done the configurations the run has been in:
\* [vm, ret], ret "none" when the run comes back to one of them (the VM is
\* deterministic, so it then never returns).
RECURSIVE RunVM(_, _, _)
RunVM(code, v, done) ==
    IF ~LoopGuard(code, v) THEN [vm |-> v, ret |-> "false"]
    ELSE IF Config(v) \in done THEN [vm |-> v, ret |-> "none"]
    ELSE LET r == ExecInstr(code, v)
         IN  IF r.ret # "none" THEN r ELSE RunVM(code, r.vm, done \cup {Config(v)})

\* Regex(s).match(str): [vm, ret].
MatchOf(code, str) == RunVM(code, RegexVM(code, str), {})

(***************************************************************************)
(* Claims.                                                                 *)
(***************************************************************************)
\* _compile returned true and nothing undefined happened on the way.
Accepted == compiled = "ok" /\ ub = "none"

\* A match call on an accepted pattern has returned.
Returned == Accepted /\ phase = "ready" /\ res # "none"

\* C1: for every pattern compile accepts and every subject, match terminates:
\* the VM is deterministic and its program fixed, so it terminates exactly when
\* it never comes back to a configuration (pc, sp, status_flag) it has already
\* executed; coming back to one is spinning forever at a fixed string position.
C1_MatchTerminates ==
    (Accepted /\ phase = "exec") => Config(vm) \notin seen

\* The offset of the last '|' of s that lies outside every group and bracket
\* expression, or -1: the alternation that is applied last (left associative).
RECURSIVE LastTopBar(_, _, _, _)
LastTopBar(s, k, depth, last) ==
    IF k >= Len(s) THEN last
    ELSE LET c == CharAt(s, k)
         IN  CASE c = Ord("[") -> LastTopBar(s, ScanRange(s, k + 1) + 1, depth, last)
               [] c = Ord("(") -> LastTopBar(s, k + 1, depth + 1, last)
               [] c = Ord(")") -> LastTopBar(s, k + 1, depth - 1, last)
               [] c = Ord("|") /\ depth = 0 -> LastTopBar(s, k + 1, depth, k)
               [] OTHER -> LastTopBar(s, k + 1, depth, last)

AltLeft(s) == SubSeq(s, 1, LastTopBar(s, 0, 0, -1))
AltRight(s) == SubSeq(s, LastTopBar(s, 0, 0, -1) + 2, Len(s))

\* s is L|R at top level with L and R patterns compile accepts on their own.
IsTopAlternation(s) ==
    /\ LastTopBar(s, 0, 0, -1) >= 0
    /\ CompileOf(AltLeft(s)).status = "ok"
    /\ CompileOf(AltRight(s)).status = "ok"
    /\ CompileOf(AltLeft(s)).fragments # <<>>
    /\ CompileOf(AltRight(s)).fragments # <<>>

\* The byte code of R inside the program of L|R: from (size of L's fragment + 5)
\* for the size of R's fragment.
InRightBranch(s, pc) ==
    LET l == Len(Top(CompileOf(AltLeft(s)).fragments).code)
        r == Len(Top(CompileOf(AltRight(s)).fragments).code)
    IN  pc >= l + 5 /\ pc < l + 5 + r

\* C2: for a top-level alternation L|R: if L matches at position 0, match
\* returns true without executing any instruction of R; if L does not match, R
\* is attempted at the position where L stopped and match returns true iff R
\* matches there.
C2_TopLevelAlternation ==
    (Returned /\ IsTopAlternation(regex)) =>
        LET l == MatchOf(CompileOf(AltLeft(regex)).bytecode, vm.string)
            rest == SubSeq(vm.string, l.vm.sp + 1, Len(vm.string))
            r == MatchOf(CompileOf(AltRight(regex)).bytecode, rest)
        IN  IF l.ret = "true"
            THEN res = "true" /\ \A c \in seen : ~InRightBranch(regex, c[1])
            ELSE l.ret = "false" => (res = "true" <=> r.ret = "true")

\* The last token of the postfix sequence is the operator op: the whole
\* pattern is a fragment of that operator.
WholePatternIs(op) ==
    /\ output # <<>>
    /\ Top(output).type = RegexTokenType_Operator
    /\ Top(output).encoding = op

\* C3: a zero-or-more or zero-or-one fragment never fails the match, whatever
\* its body: stated of the fragment that is the whole pattern, after which only
\* the final fail-jump and Accept follow, every match call returns true.
C3_OptionalNeverFails ==
    (Returned /\ (WholePatternIs(RegexOperatorType_ZeroOrMore)
                  \/ WholePatternIs(RegexOperatorType_ZeroOrOne)))
        => res = "true"

\* s is one literal, or one bracket expression [x-y], followed by the
\* quantifier character q.
IsQuantifiedOne(s, q) ==
    \/ Len(s) = 2 /\ (isalnum(s[1]) \/ s[1] = Ord("_")) /\ s[2] = Ord(q)
    \/ /\ Len(s) = 6
       /\ s[1] = Ord("[") /\ s[3] = Ord("-") /\ s[5] = Ord("]") /\ s[6] = Ord(q)

\* Whether character c passes the test of such a pattern: it is the literal,
\* or lies in the closed range.
PassesOne(s, c) ==
    IF Len(s) = 2 THEN c = s[1] ELSE s[2] <= c /\ c <= s[4]

\* C4: for one literal or one character range followed by '*', match returns
\* true for every subject, the empty one and those whose first character fails
\* the test included.
C4_StarOfOneAlwaysMatches ==
    (Returned /\ IsQuantifiedOne(regex, "*")) => res = "true"

\* C5: for one literal or one character range followed by '+', match returns
\* true iff the subject is non-empty and its first character passes the test.
C5_PlusOfOneMatchesFirst ==
    (Returned /\ IsQuantifiedOne(regex, "+")) =>
        (res = "true" <=> (vm.string # <<>> /\ PassesOne(regex, vm.string[1])))

\* s is a concatenation of n >= 1 literal characters.
IsLiteralConcat(s) ==
    Len(s) >= 1 /\ \A k \in 1..Len(s) : isalnum(s[k]) \/ s[k] = Ord("_")

\* C6: for a concatenation of literals c1..cn, match returns true iff the
\* subject has at least n characters and starts with c1..cn.
C6_LiteralsMatchPrefix ==
    (Returned /\ IsLiteralConcat(regex)) =>
        (res = "true" <=> (/\ Len(vm.string) >= Len(regex)
                           /\ \A k \in 1..Len(regex) : vm.string[k] = regex[k]))

\* C6's case: at least two literals matched a longer subject, Accept reached
\* before the end of the subject.
C6_Witness ==
    /\ Returned /\ IsLiteralConcat(regex)
    /\ Len(regex) >= 2 /\ Len(vm.string) > Len(regex)
    /\ res = "true" /\ vm.sp < Len(vm.string)

\* lex_regex and parse_regex have both returned true.
Parsed == phase \notin {"lex", "parse"} /\ compiled \notin {"lex_failed", "parse_failed"}

\* Whether some operator of the postfix sequence post, read from token n on
\* with depth fragments on the stack, needs more fragments than the stack holds.
RECURSIVE Underflows(_, _, _)
Underflows(post, n, depth) ==
    IF n > Len(post) THEN FALSE
    ELSE LET t == post[n]
             unary == t.encoding \in {RegexOperatorType_ZeroOrMore,
                                      RegexOperatorType_OneOrMore,
                                      RegexOperatorType_ZeroOrOne}
         IN  IF t.type # RegexTokenType_Operator THEN Underflows(post, n + 1, depth + 1)
             ELSE IF unary THEN depth < 1 \/ Underflows(post, n + 1, depth)
             ELSE depth < 2 \/ Underflows(post, n + 1, depth - 1)

\* C7: when an operator of the postfix sequence needs more fragments than the
\* fragment stack holds, regex_emit reports failure and compile fails cleanly;
\* the emitter never pops or reads the top of an empty fragment stack.
C7_EmitReportsUnderflow ==
    /\ ub # "empty_fragment_stack"
    /\ (Parsed /\ phase # "emit" /\ Underflows(output, 1, 0)) => compiled = "emit_failed"

\* The number of GroupBegin minus the number of GroupEnd among the first n
\* tokens.
RECURSIVE GroupDepth(_, _)
GroupDepth(toks, n) ==
    IF n = 0 THEN 0
    ELSE GroupDepth(toks, n - 1)
         + (IF toks[n].type = RegexTokenType_GroupBegin THEN 1
            ELSE IF toks[n].type = RegexTokenType_GroupEnd THEN -1 ELSE 0)

\* Every ')' closes an open '(' and every '(' is closed.
Balanced(toks) ==
    /\ \A n \in 1..Len(toks) : GroupDepth(toks, n) >= 0
    /\ GroupDepth(toks, Len(toks)) = 0

\* C8: parse_regex fails (mismatched parentheses) for every token sequence
\* whose parentheses are unbalanced, and for no other.
C8_ParseFailsIffUnbalanced ==
    (phase \notin {"lex", "parse"} /\ compiled # "lex_failed") =>
        (compiled = "parse_failed" <=> ~Balanced(tokens))

\* C8's case: as many '(' as ')' and still unbalanced (a ')' before its '('),
\* and parse_regex failed.
C8_Witness ==
    /\ compiled = "parse_failed"
    /\ tokens # <<>>
    /\ GroupDepth(tokens, Len(tokens)) = 0
    /\ \E n \in 1..Len(tokens) : GroupDepth(tokens, n) < 0

\* The characters lex_regex accepts outside a bracket expression.
LexAlphabet ==
    {Ord(c) : c \in {"|", "*", "+", "?", ".", "(", ")", "["}}

\* The 1-based positions of s that lie outside every bracket expression, a
\* bracket expression running from a '[' to the first ']' after it.
RECURSIVE OutsidePositions(_, _)
OutsidePositions(s, k) ==
    IF k > Len(s) THEN {}
    ELSE IF s[k] = Ord("[") /\ \E j \in (k + 1)..Len(s) : s[j] = Ord("]")
    THEN {k} \cup OutsidePositions(s,
             1 + CHOOSE j \in (k + 1)..Len(s) :
                     s[j] = Ord("]") /\ \A m \in (k + 1)..(j - 1) : s[m] # Ord("]"))
    ELSE IF s[k] = Ord("[") THEN {k}
    ELSE {k} \cup OutsidePositions(s, k + 1)

\* s holds a '[' with no later ']', or a character outside a bracket
\* expression that lex_regex does not accept.
LexMustFail(s) ==
    \E k \in OutsidePositions(s, 1) :
        \/ s[k] = Ord("[") /\ \A j \in (k + 1)..Len(s) : s[j] # Ord("]")
        \/ ~(isalnum(s[k]) \/ s[k] = Ord("_") \/ s[k] \in LexAlphabet)

\* C9: lex_regex fails iff it meets an unclosed '[' or an unsupported character
\* outside a bracket expression; otherwise it succeeds and has consumed the
\* whole pattern.
C9_LexFailsIffUnsupported ==
    phase # "lex" =>
        /\ compiled = "lex_failed" <=> LexMustFail(regex)
        /\ compiled # "lex_failed" => i = Len(regex)

\* C9's case: a pattern holding a '-', which is not accepted outside a bracket
\* expression, lexed successfully: the '-' lies inside a closed bracket
\* expression and the scan went on to the end of the pattern.
C9_Witness ==
    /\ phase # "lex" /\ compiled # "lex_failed"
    /\ \E k \in 1..Len(regex) : regex[k] = Ord("-")

\* The content of the bracket expression of token t is not of the form x-y.
MalformedRange(s, t) ==
    /\ t.type = RegexTokenType_CharacterRange
    /\ ~(t.data_len = 3 /\ CharAt(s, t.data + 1) = Ord("-"))

\* C10: compile rejects every bracket expression whose content is not exactly
\* x-y, and the code generator never reads a range endpoint at an offset
\* outside the token's span.
C10_MalformedRangeRejected ==
    /\ (phase \in {"ready", "exec", "crashed"}
        /\ \E n \in 1..Len(tokens) : MalformedRange(regex, tokens[n]))
           => compiled # "ok"
    /\ phase = "emit" =>
           \A n \in 1..tok : output[n].type = RegexTokenType_CharacterRange
                                 => output[n].data_len > 2

\* lex_regex or parse_regex returned false.
CompileFailed == compiled \in {"lex_failed", "parse_failed"}

\* C11: whenever lexing or parsing fails the object holds an empty program, and
\* every later match call returns false without a VM being built or run.
C11_FailedCompileEmptyProgram ==
    CompileFailed =>
        /\ bytecode = <<>>
        /\ phase = "ready"
        /\ vm = NoVM /\ seen = {}
        /\ res \in {"none", "false"}

\* C11's case: parse_regex failed after it had moved tokens to its output, and
\* a match call on the object has returned.
C11_Witness ==
    /\ compiled = "parse_failed"
    /\ output # <<>>
    /\ res = "false"

\* C12: a pattern whose postfix sequence is empty (the empty pattern, empty
\* groups) compiles to the single instruction Accept, and match returns true
\* for every subject.
C12_EmptyPostfixAccepts ==
    (compiled = "ok" /\ output = <<>>) =>
        /\ bytecode = <<RegexInstrOpCode_Accept>>
        /\ res \in {"none", "true"}
        /\ phase = "exec" => LoopGuard(bytecode, vm)

\* C12's case: the pattern () matched a non-empty subject.
C12_Witness ==
    /\ compiled = "ok" /\ output = <<>>
    /\ regex = Str(<<"(", ")">>)
    /\ phase = "ready" /\ res = "true" /\ vm.string # <<>>

\* Both callers' last calls have returned.
BothReturned == phase = "ready" /\ phase2 = "ready" /\ res # "none" /\ res2 # "none"

\* C13: match does not modify the compiled program: after any sequence of match
\* calls the byte code is what compile produced, and two calls with the same
\* subject return the same result.
C13_MatchDoesNotMutate ==
    Accepted =>
        /\ bytecode = CompileOf(regex).bytecode
        /\ (BothReturned /\ vm.string = vm2.string) => res = res2

\* C13's case: two calls with the same non-empty subject, one wholly after the
\* other, have both returned true.
C13_Witness ==
    /\ Accepted /\ BothReturned /\ ~overlapped
    /\ vm.string = vm2.string /\ vm.string # <<>>
    /\ res = "true" /\ res2 = "true"

\* C15: when match calls run concurrently on one compiled object, under every
\* interleaving of their VM steps each call returns what it returns alone.
C15_ConcurrentCallsIndependent ==
    Accepted =>
        /\ (phase = "ready" /\ res # "none") => res = MatchOf(bytecode, vm.string).ret
        /\ (phase2 = "ready" /\ res2 # "none") => res2 = MatchOf(bytecode, vm2.string).ret

\* C15's case: two calls on different subjects whose steps interleaved have
\* returned different results.
C15_Witness ==
    /\ Accepted /\ BothReturned /\ overlapped
    /\ vm.string # vm2.string
    /\ res = "true" /\ res2 = "false"

\* C14: compilation is deterministic: every compilation of an accepted pattern
\* yields the same bytes, here those of the compilation that finds the
\* terminator's value wherever it reads.
C14_CompileDeterministic ==
    (compiled = "ok" /\ ub # "empty_fragment_stack") =>
        bytecode = ProgramReading(regex, 0)

\* s is c1|c2|...|cn, n >= 2 single literal characters.
IsLiteralAlternation(s) ==
    /\ Len(s) >= 3 /\ Len(s) % 2 = 1
    /\ \A k \in 1..Len(s) :
           IF k % 2 = 1 THEN IsLiteralChar(s[k]) ELSE s[k] = Ord("|")

\* C16: for an alternation c1|...|cn of single literals, match returns true iff
\* the subject is non-empty and its first character is one of c1..cn.
C16_LiteralAlternation ==
    (Returned /\ IsLiteralAlternation(regex)) =>
        (res = "true" <=>
            /\ vm.string # <<>>
            /\ \E k \in 1..Len(regex) : k % 2 = 1 /\ regex[k] = vm.string[1])

\* s is c* or (c1|c2)* with literal characters.
IsStarOfLiterals(s) ==
    \/ Len(s) = 2 /\ IsLiteralChar(s[1]) /\ s[2] = Ord("*")
    \/ /\ Len(s) = 6
       /\ s[1] = Ord("(") /\ IsLiteralChar(s[2]) /\ s[3] = Ord("|")
       /\ IsLiteralChar(s[4]) /\ s[5] = Ord(")") /\ s[6] = Ord("*")

\* The characters the body of such a pattern matches.
BodyChars(s) == IF Len(s) = 2 THEN {s[1]} ELSE {s[2], s[4]}

\* The length of the longest prefix of str made of characters of set.
MaxPrefix(str, set) ==
    CHOOSE n \in 0..Len(str) :
        /\ \A k \in 1..n : str[k] \in set
        /\ n = Len(str) \/ str[n + 1] \notin set

\* C17: the loop of X* runs its body again after every successful pass and is
\* left only when a pass fails: for X a literal or (c1|c2), when match returns
\* the loop has consumed the whole maximal prefix of the body's characters.
C17_StarConsumesMaximalPrefix ==
    (Returned /\ IsStarOfLiterals(regex)) =>
        /\ res = "true"
        /\ vm.sp = MaxPrefix(vm.string, BodyChars(regex))

\* The size of the fragment of the whole pattern: the address of the
\* instruction that follows it in the program.
FragmentEnd == Len(Top(fragments).code)

\* C18: when the loop of X+ ends after at least one successful iteration, the
\* VM continues at the instruction immediately following the fragment with
\* status_flag true: stated of c+ and [x-y]+ as whole patterns, where the VM
\* being beyond the fragment with sp >= 1 means the loop has ended.
C18_PlusExitsToNextInstruction ==
    (Accepted /\ phase \in {"ready", "exec"} /\ IsQuantifiedOne(regex, "+")
        /\ vm.sp >= 1 /\ vm.pc >= FragmentEnd) =>
        \E c \in seen \cup {Config(vm)} : c[1] = FragmentEnd /\ c[3] = TRUE

\* The grammar of a well-formed token sequence, read with quantifiers binding
\* tightest, then concatenation, then alternation:
\*   Alt ::= Cat ('|' Cat)*      Cat ::= Rep (CONCAT Rep)*
\*   Rep ::= Atom quantifier?    Atom ::= character | range | '(' Alt ')'
\* Each operator reads from token k (1-based): [ok, pos, out], pos the token
\* after what it read and out the postfix form of what it read.
IsOp(toks, k, ops) ==
    /\ k <= Len(toks)
    /\ toks[k].type = RegexTokenType_Operator
    /\ toks[k].encoding \in ops

NoParse == [ok |-> FALSE, pos |-> 0, out |-> <<>>]

RECURSIVE RefAlt(_, _)
RECURSIVE RefAltRest(_, _)
RECURSIVE RefCat(_, _)
RECURSIVE RefCatRest(_, _)

RefAtom(toks, k) ==
    IF k > Len(toks) THEN NoParse
    ELSE IF toks[k].type \in {RegexTokenType_Character, RegexTokenType_CharacterRange}
    THEN [ok |-> TRUE, pos |-> k + 1, out |-> <<toks[k]>>]
    ELSE IF toks[k].type = RegexTokenType_GroupBegin
    THEN LET r == RefAlt(toks, k + 1)
         IN  IF r.ok /\ r.pos <= Len(toks) /\ toks[r.pos].type = RegexTokenType_GroupEnd
             THEN [r EXCEPT !.pos = r.pos + 1]
             ELSE NoParse
    ELSE NoParse

RefRep(toks, k) ==
    LET a == RefAtom(toks, k)
    IN  IF a.ok /\ IsOp(toks, a.pos, {RegexOperatorType_ZeroOrMore,
                                       RegexOperatorType_OneOrMore,
                                       RegexOperatorType_ZeroOrOne})
        THEN [ok |-> TRUE, pos |-> a.pos + 1, out |-> Append(a.out, toks[a.pos])]
        ELSE a

\* left: what has been read of the concatenation so far.
RefCatRest(toks, left) ==
    IF left.ok /\ IsOp(toks, left.pos, {RegexOperatorType_Concatenate})
    THEN LET r == RefRep(toks, left.pos + 1)
         IN  IF r.ok
             THEN RefCatRest(toks, [ok |-> TRUE, pos |-> r.pos,
                                    out |-> left.out \o r.out \o <<toks[left.pos]>>])
             ELSE NoParse
    ELSE left

RefCat(toks, k) == RefCatRest(toks, RefRep(toks, k))

RefAltRest(toks, left) ==
    IF left.ok /\ IsOp(toks, left.pos, {RegexOperatorType_Alternate})
    THEN LET r == RefCat(toks, left.pos + 1)
         IN  IF r.ok
             THEN RefAltRest(toks, [ok |-> TRUE, pos |-> r.pos,
                                    out |-> left.out \o r.out \o <<toks[left.pos]>>])
             ELSE NoParse
    ELSE left

RefAlt(toks, k) == RefAltRest(toks, RefCat(toks, k))

WellFormed(toks) ==
    LET r == RefAlt(toks, 1) IN r.ok /\ r.pos = Len(toks) + 1

\* parse_regex has returned, or failed, on the tokens of a pattern that lexed.
ParseEnded == phase \notin {"lex", "parse"} /\ compiled # "lex_failed"

\* C19: for the tokens of a well-formed pattern parse_regex succeeds and its
\* output is exactly the postfix form of the expression (quantifier >
\* concatenation > alternation, both binary operators left-associative), with
\* no GroupBegin or GroupEnd token in it.
C19_ParseYieldsPostfix ==
    (ParseEnded /\ WellFormed(tokens)) =>
        /\ compiled # "parse_failed"
        /\ output = RefAlt(tokens, 1).out
        /\ \A n \in 1..Len(output) :
               output[n].type \notin {RegexTokenType_GroupBegin, RegexTokenType_GroupEnd}

\* C19's case: a well-formed pattern with a group, an alternation, a
\* quantifier and a concatenation has been parsed.
C19_Witness ==
    /\ ParseEnded /\ WellFormed(tokens)
    /\ \E n \in 1..Len(tokens) : tokens[n].type = RegexTokenType_GroupBegin
    /\ \E n \in 1..Len(tokens) : IsOp(tokens, n, {RegexOperatorType_Alternate})
    /\ \E n \in 1..Len(tokens) : IsOp(tokens, n, {RegexOperatorType_ZeroOrMore})
    /\ \E n \in 1..Len(tokens) : IsOp(tokens, n, {RegexOperatorType_Concatenate})
    /\ output = RefAlt(tokens, 1).out

\* The instruction at pc is a conditional jump with a negative offset that is
\* taken when status_flag is flag.
TakenBackwardJump(code, pc, flag) ==
    /\ pc < Len(code)
    /\ \/ code[pc + 1] = RegexInstrOpCode_JumpEq /\ flag
       \/ code[pc + 1] = RegexInstrOpCode_JumpNeq /\ ~flag
    /\ decode_jump(code, pc + 1) < 0

\* C20: between two executions of the same taken backward jump the string
\* position has strictly increased: when the VM is about to take one, every
\* earlier execution of it in this call was at a smaller sp.
C20_BackwardJumpsAdvance ==
    (Accepted /\ phase = "exec" /\ LoopGuard(bytecode, vm)
        /\ TakenBackwardJump(bytecode, vm.pc, vm.status_flag)) =>
        \A c \in seen :
            (c[1] = vm.pc /\ TakenBackwardJump(bytecode, c[1], c[3])) => c[2] < vm.sp

(***************************************************************************)
(* The instruction set in execution.                                       *)
(***************************************************************************)
TestOpCodes ==
    {RegexInstrOpCode_TestSingle, RegexInstrOpCode_TestRange, RegexInstrOpCode_TestAny,
     RegexInstrOpCode_TestDigit, RegexInstrOpCode_TestLowerCase,
     RegexInstrOpCode_TestUpperCase}

\* The VM is inside the loop of regex_exec, about to run the instruction at pc.
Executing == Accepted /\ phase = "exec" /\ LoopGuard(bytecode, vm)

\* The opcode the next iteration dispatches on.
OpAtPc == bytecode[vm.pc + 1]

\* C21: a test instruction executed while sp equals the input length leaves
\* status_flag false.
C21_TestsFailAtEndOfInput ==
    (Executing /\ OpAtPc \in TestOpCodes /\ vm.sp = Len(vm.string)) =>
        ~ExecInstr(bytecode, vm).vm.status_flag

\* C22: in the program of a top-level alternation L|R the JumpEq placed after
\* L's code carries the byte length of R's code as its offset, and taking it
\* moves pc to the first byte after R's code.
C22_AlternationJumpSkipsRight ==
    (Accepted /\ phase \in {"ready", "exec"} /\ IsTopAlternation(regex)) =>
        LET l == Len(Top(CompileOf(AltLeft(regex)).fragments).code)
            r == Len(Top(CompileOf(AltRight(regex)).fragments).code)
        IN  /\ bytecode[l + 1] = RegexInstrOpCode_JumpEq
            /\ decode_jump(bytecode, l + 1) = r
            /\ (Executing /\ vm.pc = l /\ vm.status_flag) =>
                   ExecInstr(bytecode, vm).vm.pc = l + 5 + r

\* The program regex_emit has assembled before its patch pass: the last
\* fragment, the final JumpNeq carrying the sentinel, Accept, Fail.
EmitAssembled(frags) ==
    LET top == Top(frags).code
    IN  patch_jump(emit_jump(top, RegexInstrOpCode_JumpNeq), Len(top) + 1, JUMP_FAIL)
        \o <<RegexInstrOpCode_Accept, RegexInstrOpCode_Fail>>

\* The addresses of the jumps that were emitted with the JUMP_FAIL sentinel.
SentinelJumps(code) ==
    {k \in 0..(Len(code) - 5) :
        /\ code[k + 1] \in {RegexInstrOpCode_JumpEq, RegexInstrOpCode_JumpNeq}
        /\ decode_jump(code, k + 1) = JUMP_FAIL}

\* C23: in the program of a non-empty pattern no jump emitted with the
\* sentinel still holds it, and each of them, when taken, moves pc to the
\* address of the trailing Fail instruction, the last byte of the program.
C23_FailJumpsReachFail ==
    (Accepted /\ phase \in {"ready", "exec"} /\ fragments # <<>>) =>
        \A k \in SentinelJumps(EmitAssembled(fragments)) :
            /\ decode_jump(bytecode, k + 1) # JUMP_FAIL
            /\ bytecode[Len(bytecode)] = RegexInstrOpCode_Fail
            /\ JumpTarget(bytecode, [vm EXCEPT !.pc = k], TRUE) = Len(bytecode) - 1

\* The instruction at pc is a JumpEq or JumpNeq.
JumpAtPc == OpAtPc \in {RegexInstrOpCode_JumpEq, RegexInstrOpCode_JumpNeq}

\* The jump at pc is taken: JumpEq with the flag set, JumpNeq with it clear.
TakenAtPc == (OpAtPc = RegexInstrOpCode_JumpEq) <=> vm.status_flag

\* C24 as the specification states it: a taken jump sets pc to the address of
\* the byte after the operand plus the operand, whatever its sign; a jump not
\* taken sets pc to the address of the byte after the operand.
C24_JumpsRelativeToNextInstruction ==
    (Executing /\ JumpAtPc) =>
        ExecInstr(bytecode, vm).vm.pc =
            IF TakenAtPc THEN vm.pc + 5 + decode_jump(bytecode, vm.pc + 1) ELSE vm.pc + 5

\* C24: a taken jump with a positive operand sets pc to the address of the
\* byte after the operand plus the operand; a taken jump with a zero or
\* negative operand sets pc to the address of its own opcode byte plus the
\* operand; a jump not taken sets pc to the address of the byte after the
\* operand.
C24_JumpsBySignOfOffset ==
    (Executing /\ JumpAtPc) =>
        LET jmp == decode_jump(bytecode, vm.pc + 1)
        IN  ExecInstr(bytecode, vm).vm.pc =
                IF ~TakenAtPc THEN vm.pc + 5
                ELSE IF jmp > 0 THEN vm.pc + 5 + jmp ELSE vm.pc + jmp

\* A backward jump of a loop has been taken and the VM went on from its target.
C24_Witness ==
    /\ Accepted /\ phase = "exec"
    /\ \E c \in seen :
           /\ TakenBackwardJump(bytecode, c[1], c[3])
           /\ vm.pc = c[1] + decode_jump(bytecode, c[1] + 1)
           /\ vm.sp = c[2]

\* The token is one of the quantifier operators '*', '+', '?'.
IsQuantifier(token) ==
    /\ token.type = RegexTokenType_Operator
    /\ token.encoding \in {RegexOperatorType_ZeroOrMore, RegexOperatorType_OneOrMore,
                           RegexOperatorType_ZeroOrOne}

\* C25: while parse_regex runs, no quantifier lies on the operator stack
\* directly on top of another quantifier.
C25_NoQuantifierOnQuantifier ==
    \A n \in 1..(Len(operators) - 1) :
        ~(IsQuantifier(operators[n]) /\ IsQuantifier(operators[n + 1]))

\* The token of a literal, '.', '(' or '[...]': the ones a Concatenate may
\* precede.
TakesConcat(token) ==
    token.type \in {RegexTokenType_Character, RegexTokenType_CharacterRange,
                    RegexTokenType_GroupBegin}

\* need_concat as C26 describes it, read off the first n tokens: cleared at
\* the start, set by a literal, '.', ')' and '[...]', cleared by '|' and '(',
\* left as it was by a quantifier (and by the Concatenate, which is inserted
\* while the flag is set and before the operand sets it again).
RECURSIVE FlagAfter(_, _)
FlagAfter(toks, n) ==
    IF n = 0 THEN FALSE
    ELSE LET t == toks[n]
         IN  CASE t.type \in {RegexTokenType_Character, RegexTokenType_CharacterRange,
                              RegexTokenType_GroupEnd} -> TRUE
               [] t.type = RegexTokenType_GroupBegin -> FALSE
               [] t.type = RegexTokenType_Operator
                  /\ t.encoding = RegexOperatorType_Alternate -> FALSE
               [] OTHER -> FlagAfter(toks, n - 1)

C27_OnlyIncPosEqMovesSp ==
    Executing =>
        ExecInstr(bytecode, vm).vm.sp =
            IF OpAtPc = RegexInstrOpCode_IncPosEq /\ vm.status_flag
            THEN vm.sp + 1 ELSE vm.sp

\* The addresses of the opcode bytes of the instructions of a program, from
\* address k on: each instruction is followed by the next one.
RECURSIVE InstrStarts(_, _)
InstrStarts(code, k) ==
    IF k >= Len(code) THEN {}
    ELSE {k} \cup InstrStarts(code, k + PatchStride(code[k + 1]))

\* C28: during execution pc is the program length or the address of the
\* opcode byte of an emitted instruction, never inside an operand.
C28_PcOnInstructionBoundary ==
    (Accepted /\ phase = "exec") =>
        (vm.pc = Len(bytecode) \/ vm.pc \in InstrStarts(bytecode, 0))

\* The 1-based position of the ')' that closes the group opened before
\* position k at the given depth, 0 when there is none.
RECURSIVE GroupClose(_, _, _)
GroupClose(s, k, depth) ==
    IF k > Len(s) THEN 0
    ELSE IF s[k] = Ord(")") THEN (IF depth = 1 THEN k ELSE GroupClose(s, k + 1, depth - 1))
    ELSE IF s[k] = Ord("(") THEN GroupClose(s, k + 1, depth + 1)
    ELSE GroupClose(s, k + 1, depth)

\* The 1-based position of the last character of the operand that starts at
\* position k (a literal, '.', a bracket expression or a group), 0 when no
\* operand starts there.
OperandEnd(s, k) ==
    IF k > Len(s) THEN 0
    ELSE IF IsLiteralChar(s[k]) \/ s[k] = Ord(".") THEN k
    ELSE IF s[k] = Ord("[") THEN (IF ScanRange(s, k) < Len(s) THEN ScanRange(s, k) + 1 ELSE 0)
    ELSE IF s[k] = Ord("(") THEN GroupClose(s, k + 1, 1)
    ELSE 0

\* The 1-based positions of the quantifiers of s that no operand precedes and
\* an operand follows.
PrefixQuantifiers(s) ==
    {k \in OutsidePositions(s, 1) :
        /\ s[k] \in {Ord("*"), Ord("+"), Ord("?")}
        /\ (k = 1 \/ s[k - 1] \in {Ord("|"), Ord("(")})
        /\ OperandEnd(s, k + 1) > 0}

\* s with the quantifier at position k moved behind the operand that follows it.
MoveBehind(s, k) ==
    LET e == OperandEnd(s, k + 1)
    IN  SubSeq(s, 1, k - 1) \o SubSeq(s, k + 1, e) \o <<s[k]>> \o SubSeq(s, e + 1, Len(s))

\* Every bracket expression of the lexed pattern has the form [x-y].
RangesWellFormed == \A n \in 1..Len(tokens) : ~MalformedRange(regex, tokens[n])

TestExecuted(c) == bytecode[c[1] + 1] \in TestOpCodes

\* C30: every test instruction executed so far in this call read its input
\* byte at an index not above the input length.
C30_TestsReadWithinInput ==
    (compiled = "ok" /\ phase \in {"exec", "ready"}) =>
        \A c \in seen : TestExecuted(c) => c[2] <= Len(vm.string)

\* A test has read the terminator of a non-empty subject: it ran at sp equal
\* to the input length, and the call has returned.
C30_Witness ==
    /\ Returned /\ vm.string # <<>>
    /\ \E c \in seen : TestExecuted(c) /\ c[2] = Len(vm.string)

====
